---- MODULE Spec2Model ----
(***************************************************************************)
(* Hotplug registry and dispatcher of libusb (libusb/hotplug.c), with the  *)
(* registry lock of libusb/os/threads_posix.c.                             *)
(*                                                                         *)
(* Three threads share one context: an application thread that registers   *)
(* and deregisters callbacks, a backend thread that reports device         *)
(* arrivals and departures, and the event thread that runs the dispatch    *)
(* pass.  Every step between two lock operations is one action.            *)
(***************************************************************************)
EXTENDS Integers, Sequences, FiniteSets, TLC

(***************************************************************************)
(* Bounds of the model.                                                    *)
(***************************************************************************)
\* registrations that pass validation in one behaviour
MaxRegs == 2
\* device objects the backend allocates in one behaviour
NumDevices == 2
\* device transitions (arrivals and departures) in one behaviour
MaxHooks == 3
\* width in bits of the signed handle counter (an int in the source)
HandleBits == 3
\* deepest recursion of the registry lock followed in one behaviour
MaxLockDepth == 4

(***************************************************************************)
(* Program constants.                                                      *)
(***************************************************************************)
LIBUSB_HOTPLUG_EVENT_DEVICE_ARRIVED == 1
LIBUSB_HOTPLUG_EVENT_DEVICE_LEFT == 2
LIBUSB_HOTPLUG_ENUMERATE == 1
LIBUSB_HOTPLUG_MATCH_ANY == -1
USBI_HOTPLUG_VENDOR_ID_VALID == 8
USBI_HOTPLUG_PRODUCT_ID_VALID == 16
USBI_HOTPLUG_DEV_CLASS_VALID == 32
USBI_HOTPLUG_NEEDS_FREE == 64
\* width of the machine int of the API parameters
IntBits == 32

LIBUSB_SUCCESS == "LIBUSB_SUCCESS"
LIBUSB_ERROR_INVALID_PARAM == "LIBUSB_ERROR_INVALID_PARAM"
LIBUSB_ERROR_NOT_SUPPORTED == "LIBUSB_ERROR_NOT_SUPPORTED"
LIBUSB_ERROR_NO_MEM == "LIBUSB_ERROR_NO_MEM"

NULL == "NULL"

(***************************************************************************)
(* Bitwise operators of C on two's complement ints of k bits.  \div is     *)
(* floor division, so a negative operand carries its sign bits.            *)
(***************************************************************************)
RECURSIVE BitAndK(_, _, _)
BitAndK(a, b, k) ==
    IF k = 0 \/ a = 0 \/ b = 0 THEN 0
    ELSE IF k = 1 THEN -((a % 2) * (b % 2))
    ELSE (a % 2) * (b % 2) + 2 * BitAndK(a \div 2, b \div 2, k - 1)

BitAnd(a, b) == BitAndK(a, b, IntBits)

BitNot(a) == -a - 1

BitOr(a, b) == a + b - BitAnd(a, b)

\* (uint8_t)x and (uint16_t)x
CastU8(x) == x % 256

CastU16(x) == x % 65536

VALID_HOTPLUG_EVENTS ==
    BitOr(LIBUSB_HOTPLUG_EVENT_DEVICE_ARRIVED, LIBUSB_HOTPLUG_EVENT_DEVICE_LEFT)

VALID_HOTPLUG_FLAGS == LIBUSB_HOTPLUG_ENUMERATE

(***************************************************************************)
(* Threads and devices.                                                    *)
(***************************************************************************)
AppThreads == {"app"}
HookThreads == {"hp"}
EventThreads == {"ev"}
Threads == AppThreads \cup HookThreads \cup EventThreads
NoThread == "none"

\* Device objects and their descriptors (idVendor, idProduct, bDeviceClass).
\* Every object is allocated, attached and detached at most once.
Devices == 1 .. NumDevices

device_descriptor(d) ==
    IF d % 2 = 1 THEN [idVendor |-> 4660, idProduct |-> 1, bDeviceClass |-> 9]
    ELSE [idVendor |-> 22136, idProduct |-> 2, bDeviceClass |-> 3]

\* Largest handle the counter can hold before it overflows.
HandleMax == 2 ^ (HandleBits - 1) - 1

Handles == 1 .. HandleMax

RecordIds == 1 .. MaxRegs

UserDatas == {"ud"}


(***************************************************************************)
(* State.                                                                  *)
(***************************************************************************)
VARIABLES
    has_hotplug,            \* usbi_backend_has_hotplug(): fixed per platform
    alloc_faults,           \* whether malloc/realloc may fail in this run
    hotplug_cbs,            \* ctx->hotplug_cbs: the registered records, in list order
    usb_devs,               \* ctx->usb_devs: the live devices, head first
    refcnt,                 \* reference count of every device object
    next_hotplug_cb_handle, \* ctx->next_hotplug_cb_handle
    lock_owner,             \* ctx->usb_devs_lock: owning thread
    lock_count,             \* ctx->usb_devs_lock: recursion depth
    event_flags,            \* ctx->event_flags: signals to the event loop
    handling_flags,         \* the event handling flags of the context
    pc,                     \* position of every thread
    loc,                    \* locals of the call every thread is in
    api_ret,                \* what register_callback returned, if the last step was its return
    exited,                 \* usbi_hotplug_exit has run
    nregs,                  \* records allocated so far (next record identity)
    allocated,              \* device objects the backend has allocated so far
    trace,                  \* history: callback invocations made by the last step
    interrupted,            \* history: the last step raised the interrupt signal
    deregd,                 \* history: records whose deregister call has returned
    stopped,                \* history: records whose callback returned non-zero in a pass
    pass_calls              \* history: records invoked in the current dispatch pass

vars == <<has_hotplug, alloc_faults, hotplug_cbs, usb_devs, refcnt,
          next_hotplug_cb_handle, lock_owner, lock_count, event_flags,
          handling_flags, pc, loc, api_ret, exited, nregs, allocated, trace,
          interrupted, deregd, stopped, pass_calls>>

\* The locals of a thread that is in no call: of a register or deregister
\* call on an application thread, of a dispatch pass on the event thread.
NoLocals(t) ==
    IF t \in AppThreads
    THEN [args |-> NULL, cb |-> NULL, replayed |-> <<>>, id |-> 0]
    ELSE IF t \in EventThreads
    THEN [cur |-> 0, n |-> 0, ret |-> 0, cb_ret |-> 0, cb_dereg |-> 0]
    ELSE [notified |-> FALSE]

\* args: the parameters of the call, code and handle: what it returned,
\* id: the record it registered, replayed: the callback invocations it made.
NoArgs ==
    [events |-> 0, flags |-> 0, vendor_id |-> 0, product_id |-> 0,
     dev_class |-> 0, callback |-> NULL, user_data |-> NULL]

NoRet == [args |-> NoArgs, code |-> "none", handle |-> 0, id |-> 0, replayed |-> <<>>]

SeqToSet(s) == {s[i] : i \in 1 .. Len(s)}

\* Number of times d occurs in the sequence s.
Occurrences(s, d) == Cardinality({i \in 1 .. Len(s) : s[i] = d})

\* Number of notifications of queue q that reference device d.
RECURSIVE CountDev(_, _)
CountDev(q, d) ==
    IF q = <<>> THEN 0
    ELSE (IF Head(q).device = d THEN 1 ELSE 0) + CountDev(Tail(q), d)

\* Sequence s without its i-th element (list_del).
list_del(s, i) == SubSeq(s, 1, i - 1) \o SubSeq(s, i + 1, Len(s))

(***************************************************************************)
(* The registry lock.  __usbi_mutex_init picks the pthread mutex type from *)
(* its argument; a NORMAL mutex blocks a thread that locks it twice.       *)
(***************************************************************************)
\* Variant: the recursive argument is ignored.
mutex_type_AlwaysNormal(recursive) == "PTHREAD_MUTEX_NORMAL"

mutex_type(recursive) ==
    IF recursive THEN "PTHREAD_MUTEX_RECURSIVE" ELSE "PTHREAD_MUTEX_NORMAL"

\* usb_devs_lock is created recursive (the dispatcher calls user code under it).
usb_devs_lock_recursive == TRUE

\* Variant: the lock excludes no thread.
CanLock_NoExclusion(t) == TRUE

\* usbi_mutex_lock returns for thread t in this state.
CanLock(t) ==
    \/ lock_owner = NoThread
    \/ /\ lock_owner = t
       /\ mutex_type(usb_devs_lock_recursive) = "PTHREAD_MUTEX_RECURSIVE"

\* usbi_mutex_lock and usbi_mutex_unlock by thread t.
Acquire(t) ==
    /\ CanLock(t)
    /\ lock_owner' = t
    /\ lock_count' = lock_count + 1

Release(t) ==
    /\ lock_count' = lock_count - 1
    /\ lock_owner' = IF lock_count = 1 THEN NoThread ELSE lock_owner

(***************************************************************************)
(* Device references.                                                      *)
(***************************************************************************)
libusb_ref_device(refs, d) == [refs EXCEPT ![d] = @ + 1]

libusb_unref_device(refs, d) == [refs EXCEPT ![d] = @ - 1]

\* release the device reference for each notification of a queue
RECURSIVE unref_notifications(_, _)
unref_notifications(refs, q) ==
    IF q = <<>> THEN refs
    ELSE unref_notifications(libusb_unref_device(refs, Head(q).device), Tail(q))

(***************************************************************************)
(* free_hotplug_cb: release the queued references, unlink and free the     *)
(* i-th record.                                                            *)
(***************************************************************************)
\* Variant: the record is freed with its queued references still held.
free_hotplug_cb_KeepsRefs(cbs, refs, i) ==
    [cbs |-> list_del(cbs, i), refcnt |-> refs]

free_hotplug_cb(cbs, refs, i) ==
    [cbs |-> list_del(cbs, i),
     refcnt |-> IF cbs[i].notifications # <<>>
                THEN unref_notifications(refs, cbs[i].notifications)
                ELSE refs]

(***************************************************************************)
(* hotplug_cb_match                                                        *)
(***************************************************************************)
\* Variant: the product id filter is not applied.
hotplug_cb_match_NoProduct(cb, dev, event) ==
    LET desc == device_descriptor(dev) IN
    IF BitAnd(cb.flags, event) = 0 THEN FALSE
    ELSE IF BitAnd(cb.flags, USBI_HOTPLUG_VENDOR_ID_VALID) # 0
            /\ cb.vendor_id # desc.idVendor THEN FALSE
    ELSE IF BitAnd(cb.flags, USBI_HOTPLUG_DEV_CLASS_VALID) # 0
            /\ cb.dev_class # desc.bDeviceClass THEN FALSE
    ELSE TRUE

hotplug_cb_match(cb, dev, event) ==
    LET desc == device_descriptor(dev) IN
    IF BitAnd(cb.flags, event) = 0 THEN FALSE
    ELSE IF BitAnd(cb.flags, USBI_HOTPLUG_VENDOR_ID_VALID) # 0
            /\ cb.vendor_id # desc.idVendor THEN FALSE
    ELSE IF BitAnd(cb.flags, USBI_HOTPLUG_PRODUCT_ID_VALID) # 0
            /\ cb.product_id # desc.idProduct THEN FALSE
    ELSE IF BitAnd(cb.flags, USBI_HOTPLUG_DEV_CLASS_VALID) # 0
            /\ cb.dev_class # desc.bDeviceClass THEN FALSE
    ELSE TRUE

(***************************************************************************)
(* hotplug_notification: walk the registry from its i-th record on and     *)
(* append a notification to every interested record.  fails is the set of  *)
(* list positions whose realloc fails.                                     *)
(***************************************************************************)
\* Variant: the notification is queued without a reference to the device.
RECURSIVE hotplug_notification_from_NoRef(_, _, _, _, _, _, _)
hotplug_notification_from_NoRef(cbs, refs, dev, event, fails, i, notified) ==
    IF i > Len(cbs) THEN [cbs |-> cbs, refcnt |-> refs, notified |-> notified]
    ELSE IF ~hotplug_cb_match(cbs[i], dev, event) \/ i \in fails
    THEN hotplug_notification_from_NoRef(cbs, refs, dev, event, fails, i + 1,
                                         notified)
    ELSE hotplug_notification_from_NoRef(
             [cbs EXCEPT ![i].notifications =
                             Append(@, [event |-> event, device |-> dev])],
             refs, dev, event, fails, i + 1, TRUE)

\* Variant: the walk ends at the first record whose realloc fails.
RECURSIVE hotplug_notification_from_StopsAtFailure(_, _, _, _, _, _, _)
hotplug_notification_from_StopsAtFailure(cbs, refs, dev, event, fails, i, notified) ==
    IF i > Len(cbs) THEN [cbs |-> cbs, refcnt |-> refs, notified |-> notified]
    ELSE IF ~hotplug_cb_match(cbs[i], dev, event)
    THEN hotplug_notification_from_StopsAtFailure(cbs, refs, dev, event, fails,
                                                  i + 1, notified)
    ELSE IF i \in fails
    THEN [cbs |-> cbs, refcnt |-> refs, notified |-> notified]
    ELSE hotplug_notification_from_StopsAtFailure(
             [cbs EXCEPT ![i].notifications =
                             Append(@, [event |-> event, device |-> dev]),
                         ![i].seen[dev].hook =
                             IF event = LIBUSB_HOTPLUG_EVENT_DEVICE_ARRIVED
                             THEN @ + 1 ELSE @],
             libusb_ref_device(refs, dev), dev, event, fails, i + 1, TRUE)

RECURSIVE hotplug_notification_from(_, _, _, _, _, _, _)
hotplug_notification_from(cbs, refs, dev, event, fails, i, notified) ==
    IF i > Len(cbs) THEN [cbs |-> cbs, refcnt |-> refs, notified |-> notified]
    ELSE IF ~hotplug_cb_match(cbs[i], dev, event)
    THEN hotplug_notification_from(cbs, refs, dev, event, fails, i + 1, notified)
    ELSE IF i \in fails
    THEN hotplug_notification_from(cbs, refs, dev, event, fails, i + 1, notified)
    ELSE hotplug_notification_from(
             [cbs EXCEPT ![i].notifications =
                             Append(@, [event |-> event, device |-> dev]),
                         ![i].seen[dev].hook =
                             IF event = LIBUSB_HOTPLUG_EVENT_DEVICE_ARRIVED
                             THEN @ + 1 ELSE @],
             libusb_ref_device(refs, dev), dev, event, fails, i + 1, TRUE)

\* Variant: the walk reports that no record took the notification.
hotplug_notification_NeverNotified(cbs, refs, dev, event, fails) ==
    [hotplug_notification_from(cbs, refs, dev, event, fails, 1, FALSE)
        EXCEPT !.notified = FALSE]

hotplug_notification(cbs, refs, dev, event, fails) ==
    hotplug_notification_from(cbs, refs, dev, event, fails, 1, FALSE)


(***************************************************************************)
(* usbi_hotplug_init and the state after libusb_init.                      *)
(***************************************************************************)
\* Without hotplug support the function returns at once: the counter keeps
\* the 0 of the zeroed context and the list head is never initialised (no
\* function reads either of them on such a platform; the registry is shown
\* as empty).
usbi_hotplug_init ==
    IF ~has_hotplug
    THEN /\ hotplug_cbs = <<>>
         /\ next_hotplug_cb_handle = 0
    ELSE /\ hotplug_cbs = <<>>
         /\ next_hotplug_cb_handle = 1

InitContext ==
    /\ usbi_hotplug_init
    /\ usb_devs = <<>>
    /\ refcnt = [d \in Devices |-> 0]
    /\ lock_owner = NoThread
    /\ lock_count = 0
    /\ event_flags = {}
    /\ handling_flags = {}
    /\ pc = [t \in Threads |-> "idle"]
    /\ loc = [t \in Threads |-> NoLocals(t)]
    /\ api_ret = NoRet
    /\ exited = FALSE
    /\ nregs = 0
    /\ allocated = {}
    /\ trace = <<>>
    /\ interrupted = FALSE
    /\ deregd = {}
    /\ stopped = {}
    /\ pass_calls = {}

Init ==
    /\ has_hotplug \in BOOLEAN
    /\ alloc_faults = FALSE
    /\ InitContext

(***************************************************************************)
(* libusb_hotplug_register_callback                                        *)
(***************************************************************************)
\* Variant: the range checks compare with the upper limit only.
InvalidParams_UpperOnly(a) ==
    \/ a.events = 0
    \/ BitAnd(a.events, BitNot(VALID_HOTPLUG_EVENTS)) # 0
    \/ BitAnd(a.flags, BitNot(VALID_HOTPLUG_FLAGS)) # 0
    \/ a.vendor_id > 65535
    \/ a.product_id > 65535
    \/ a.dev_class > 255
    \/ a.callback = NULL

\* check for sane values
InvalidParams(a) ==
    \/ a.events = 0
    \/ BitAnd(a.events, BitNot(VALID_HOTPLUG_EVENTS)) # 0
    \/ BitAnd(a.flags, BitNot(VALID_HOTPLUG_FLAGS)) # 0
    \/ (a.vendor_id # LIBUSB_HOTPLUG_MATCH_ANY
        /\ BitAnd(a.vendor_id, BitNot(65535)) # 0)
    \/ (a.product_id # LIBUSB_HOTPLUG_MATCH_ANY
        /\ BitAnd(a.product_id, BitNot(65535)) # 0)
    \/ (a.dev_class # LIBUSB_HOTPLUG_MATCH_ANY
        /\ BitAnd(a.dev_class, BitNot(255)) # 0)
    \/ a.callback = NULL

\* Variant: the capability is checked before the parameters.
RegisterCheck_CapabilityFirst(a, mem_ok) ==
    IF ~has_hotplug THEN LIBUSB_ERROR_NOT_SUPPORTED
    ELSE IF InvalidParams(a) THEN LIBUSB_ERROR_INVALID_PARAM
    ELSE IF ~mem_ok THEN LIBUSB_ERROR_NO_MEM
    ELSE "none"

\* The code returned before the record is allocated, or "none" if the call
\* goes on to take the lock.
RegisterCheck(a, mem_ok) ==
    IF InvalidParams(a) THEN LIBUSB_ERROR_INVALID_PARAM
    ELSE IF ~has_hotplug THEN LIBUSB_ERROR_NOT_SUPPORTED
    ELSE IF ~mem_ok THEN LIBUSB_ERROR_NO_MEM
    ELSE "none"

\* The record built from the parameters.  A filter field whose valid bit is
\* clear is never read; it is left 0 here.  id stands for the address of the
\* record; args and seen are history: the parameters it was registered with
\* and, per device, the arrivals delivered to it since the device attached
\* (by the enumeration replay, by a queued notification).
NewHotplugCb(a, id) ==
    LET f0 == CastU8(a.events)
        f1 == IF a.vendor_id # LIBUSB_HOTPLUG_MATCH_ANY
              THEN BitOr(f0, USBI_HOTPLUG_VENDOR_ID_VALID) ELSE f0
        f2 == IF a.product_id # LIBUSB_HOTPLUG_MATCH_ANY
              THEN BitOr(f1, USBI_HOTPLUG_PRODUCT_ID_VALID) ELSE f1
        f3 == IF a.dev_class # LIBUSB_HOTPLUG_MATCH_ANY
              THEN BitOr(f2, USBI_HOTPLUG_DEV_CLASS_VALID) ELSE f2
    IN [id |-> id,
        handle |-> 0,
        flags |-> f3,
        vendor_id |-> IF a.vendor_id # LIBUSB_HOTPLUG_MATCH_ANY
                      THEN CastU16(a.vendor_id) ELSE 0,
        product_id |-> IF a.product_id # LIBUSB_HOTPLUG_MATCH_ANY
                       THEN CastU16(a.product_id) ELSE 0,
        dev_class |-> IF a.dev_class # LIBUSB_HOTPLUG_MATCH_ANY
                      THEN CastU8(a.dev_class) ELSE 0,
        callback |-> a.callback,
        user_data |-> a.user_data,
        notifications |-> <<>>,
        args |-> a,
        seen |-> [d \in Devices |-> [replay |-> 0, hook |-> 0]]]

\* Variant: the counter is not incremented.
HandleIncrement_Stuck(h) == h

\* ctx->next_hotplug_cb_handle++ on a signed counter of HandleBits bits
HandleIncrement(h) ==
    IF h + 1 > HandleMax THEN h + 1 - 2 ^ HandleBits ELSE h + 1

\* Variant: the overflow is not handled.
NextHandle_NoReset(h) == HandleIncrement(h)

\* handle the unlikely case of overflow
NextHandle(h) ==
    IF HandleIncrement(h) < 0 THEN 1 ELSE HandleIncrement(h)

\* Variant: the walk over the live list stops at the first match.
EnumerateDevices_FirstOnly(cb, devs) ==
    IF devs = <<>> THEN <<>>
    ELSE IF hotplug_cb_match(cb, Head(devs), LIBUSB_HOTPLUG_EVENT_DEVICE_ARRIVED)
    THEN <<Head(devs)>>
    ELSE IF Len(devs) > 1
            /\ hotplug_cb_match(cb, devs[2], LIBUSB_HOTPLUG_EVENT_DEVICE_ARRIVED)
    THEN <<devs[2]>>
    ELSE <<>>

\* for_each_device: the devices the enumeration replay calls back for
RECURSIVE EnumerateDevices(_, _)
EnumerateDevices(cb, devs) ==
    IF devs = <<>> THEN <<>>
    ELSE IF hotplug_cb_match(cb, Head(devs), LIBUSB_HOTPLUG_EVENT_DEVICE_ARRIVED)
    THEN <<Head(devs)>> \o EnumerateDevices(cb, Tail(devs))
    ELSE EnumerateDevices(cb, Tail(devs))

\* Variant: the replay is made for records that ask for departures.
ReplayDevices_OnLeft(cb, reg_flags, events, devs) ==
    IF BitAnd(reg_flags, LIBUSB_HOTPLUG_ENUMERATE) # 0
       /\ BitAnd(events, LIBUSB_HOTPLUG_EVENT_DEVICE_LEFT) # 0
    THEN EnumerateDevices(cb, devs)
    ELSE <<>>

\* The devices replayed at registration.
ReplayDevices(cb, reg_flags, events, devs) ==
    IF BitAnd(reg_flags, LIBUSB_HOTPLUG_ENUMERATE) # 0
       /\ BitAnd(events, LIBUSB_HOTPLUG_EVENT_DEVICE_ARRIVED) # 0
    THEN EnumerateDevices(cb, devs)
    ELSE <<>>

\* The call up to the end of the enumeration replay: the checks, then, with
\* the lock taken, the handle and one callback invocation per live device
\* that matches.  rets are the values the callback returns; they are dropped.
RegisterEnumerate(t, a, mem_ok, rets) ==
    /\ ~exited
    /\ pc[t] = "idle"
    /\ LET code == RegisterCheck(a, mem_ok) IN
       IF code # "none"
       THEN /\ rets = <<>>
            /\ api_ret' = [NoRet EXCEPT !.args = a, !.code = code]
            /\ trace' = <<>>
            /\ UNCHANGED <<pc, loc, nregs, lock_owner, lock_count,
                           next_hotplug_cb_handle>>
       ELSE /\ nregs < MaxRegs
            /\ nregs' = nregs + 1
            /\ Acquire(t)
            /\ LET cb == [NewHotplugCb(a, nregs + 1) EXCEPT
                             !.handle = next_hotplug_cb_handle]
                   devs == ReplayDevices(cb, a.flags, a.events, usb_devs)
               IN /\ DOMAIN rets = 1 .. Len(devs)
                  /\ next_hotplug_cb_handle' = NextHandle(next_hotplug_cb_handle)
                  /\ loc' = [loc EXCEPT ![t] =
                               [NoLocals(t) EXCEPT
                                   !.args = a,
                                   !.cb = [cb EXCEPT !.seen =
                                             [d \in Devices |->
                                                 [replay |-> Occurrences(devs, d),
                                                  hook |-> 0]]],
                                   !.replayed =
                                       [i \in 1 .. Len(devs) |->
                                           [device |-> devs[i], ret |-> rets[i]]]]]
                  /\ trace' = [i \in 1 .. Len(devs) |->
                                  [id |-> cb.id, device |-> devs[i],
                                   event |-> LIBUSB_HOTPLUG_EVENT_DEVICE_ARRIVED,
                                   via |-> "register"]]
            /\ pc' = [pc EXCEPT ![t] = "reg_add"]
            /\ api_ret' = NoRet
    /\ interrupted' = FALSE
    /\ UNCHANGED <<has_hotplug, alloc_faults, hotplug_cbs, usb_devs, refcnt,
                   event_flags, handling_flags, exited, allocated, deregd, stopped,
                   pass_calls>>

\* add to tail so that callbacks are invoked in FIFO order
list_add_tail(cb, cbs) == Append(cbs, cb)

RegisterAdd(t) ==
    /\ pc[t] = "reg_add"
    /\ hotplug_cbs' = list_add_tail(loc[t].cb, hotplug_cbs)
    /\ Release(t)
    /\ api_ret' = [args |-> loc[t].args, code |-> LIBUSB_SUCCESS,
                   handle |-> loc[t].cb.handle, id |-> loc[t].cb.id,
                   replayed |-> loc[t].replayed]
    /\ pc' = [pc EXCEPT ![t] = "idle"]
    /\ loc' = [loc EXCEPT ![t] = NoLocals(t)]
    /\ trace' = <<>>
    /\ interrupted' = FALSE
    /\ UNCHANGED <<has_hotplug, alloc_faults, usb_devs, refcnt,
                   next_hotplug_cb_handle, event_flags, handling_flags, exited,
                   nregs, allocated, deregd, stopped, pass_calls>>


(***************************************************************************)
(* libusb_hotplug_deregister_callback                                      *)
(***************************************************************************)
\* usbi_handling_events: the calling thread is inside event handling.
usbi_handling_events(t) == t \in EventThreads /\ pc[t] # "idle"

\* Position of the first record carrying handle h, 0 if there is none.
FindHandle(cbs, h) ==
    IF \E i \in 1 .. Len(cbs) : cbs[i].handle = h
    THEN CHOOSE i \in 1 .. Len(cbs) :
             /\ cbs[i].handle = h
             /\ \A j \in 1 .. i - 1 : cbs[j].handle # h
    ELSE 0

\* Variant: found is set whether or not a record carries the handle.
deregister_locked_AlwaysFound(cbs, refs, hflags, h) ==
    LET i == FindHandle(cbs, h) IN
    IF i = 0
    THEN [cbs |-> cbs, refcnt |-> refs, hflags |-> hflags, found |-> TRUE, id |-> 0]
    ELSE IF "USBI_HANDLING_HOTPLUG_NOTIFICATIONS" \in hflags
    THEN [cbs |-> [cbs EXCEPT ![i].flags = BitOr(@, USBI_HOTPLUG_NEEDS_FREE)],
          refcnt |-> refs,
          hflags |-> hflags \cup {"USBI_HOTPLUG_CB_FREED"},
          found |-> TRUE, id |-> cbs[i].id]
    ELSE [cbs |-> free_hotplug_cb(cbs, refs, i).cbs,
          refcnt |-> free_hotplug_cb(cbs, refs, i).refcnt,
          hflags |-> hflags,
          found |-> TRUE, id |-> cbs[i].id]

\* The locked part of deregister: defer when a dispatch pass is in progress,
\* free the record otherwise.
deregister_locked(cbs, refs, hflags, h) ==
    LET i == FindHandle(cbs, h) IN
    IF i = 0
    THEN [cbs |-> cbs, refcnt |-> refs, hflags |-> hflags, found |-> FALSE, id |-> 0]
    ELSE IF "USBI_HANDLING_HOTPLUG_NOTIFICATIONS" \in hflags
    THEN [cbs |-> [cbs EXCEPT ![i].flags = BitOr(@, USBI_HOTPLUG_NEEDS_FREE)],
          refcnt |-> refs,
          hflags |-> hflags \cup {"USBI_HOTPLUG_CB_FREED"},
          found |-> TRUE, id |-> cbs[i].id]
    ELSE [cbs |-> free_hotplug_cb(cbs, refs, i).cbs,
          refcnt |-> free_hotplug_cb(cbs, refs, i).refcnt,
          hflags |-> hflags,
          found |-> TRUE, id |-> cbs[i].id]

\* The call up to its unlock: the capability check, then lock, search,
\* defer or free, unlock.
DeregisterLocked(t, h) ==
    /\ ~exited
    /\ pc[t] = "idle"
    /\ IF ~has_hotplug
       THEN UNCHANGED <<hotplug_cbs, refcnt, handling_flags, pc, loc, deregd>>
       ELSE /\ CanLock(t)
            /\ LET r == deregister_locked(hotplug_cbs, refcnt, handling_flags, h)
               IN /\ hotplug_cbs' = r.cbs
                  /\ refcnt' = r.refcnt
                  /\ handling_flags' = r.hflags
                  /\ IF r.found /\ ~usbi_handling_events(t)
                     THEN /\ pc' = [pc EXCEPT ![t] = "dereg_signal"]
                          /\ loc' = [loc EXCEPT ![t] =
                                       [NoLocals(t) EXCEPT !.id = r.id]]
                          /\ UNCHANGED deregd
                     ELSE /\ UNCHANGED <<pc, loc>>
                          /\ deregd' = IF r.found THEN deregd \cup {r.id} ELSE deregd
    /\ trace' = <<>>
    /\ api_ret' = NoRet
    /\ interrupted' = FALSE
    /\ UNCHANGED <<has_hotplug, alloc_faults, usb_devs, next_hotplug_cb_handle,
                   lock_owner, lock_count, event_flags, exited, nregs,
                   allocated, stopped, pass_calls>>

\* flag that a hotplug callback was just deregistered, then return
DeregisterSignal(t) ==
    /\ pc[t] = "dereg_signal"
    /\ interrupted' = TRUE
    /\ deregd' = deregd \cup {loc[t].id}
    /\ pc' = [pc EXCEPT ![t] = "idle"]
    /\ loc' = [loc EXCEPT ![t] = NoLocals(t)]
    /\ trace' = <<>>
    /\ api_ret' = NoRet
    /\ UNCHANGED <<has_hotplug, alloc_faults, hotplug_cbs, usb_devs, refcnt,
                   next_hotplug_cb_handle, lock_owner, lock_count, event_flags,
                   handling_flags, exited, nregs, allocated, stopped, pass_calls>>

(***************************************************************************)
(* usbi_connect_device and usbi_disconnect_device                          *)
(***************************************************************************)
\* Device transitions reported so far: every allocated device has arrived,
\* and has left if it is no longer in the live list.
HooksDone ==
    Cardinality(allocated) + Cardinality(allocated \ SeqToSet(usb_devs))

\* list_add: insert at the head of the list
list_add(d, devs) == <<d>> \o devs

\* Position of device d in the live list.
DevIndex(devs, d) == CHOOSE i \in 1 .. Len(devs) : devs[i] = d

\* The backend allocates the device object (one reference, which the live
\* list takes over) and reports its arrival.
ConnectDevice(t, d, fails) ==
    /\ ~exited
    /\ pc[t] = "idle"
    /\ HooksDone < MaxHooks
    /\ d \notin allocated
    /\ d \notin SeqToSet(usb_devs)
    /\ CanLock(t)
    /\ allocated' = allocated \cup {d}
    /\ usb_devs' = list_add(d, usb_devs)
    /\ LET refs == [refcnt EXCEPT ![d] = 1]
           r == hotplug_notification(hotplug_cbs, refs, d,
                                     LIBUSB_HOTPLUG_EVENT_DEVICE_ARRIVED, fails)
       IN IF has_hotplug
          THEN /\ hotplug_cbs' = r.cbs
               /\ refcnt' = r.refcnt
               /\ pc' = [pc EXCEPT ![t] = IF r.notified THEN "hook_signal" ELSE "idle"]
          ELSE /\ hotplug_cbs' = hotplug_cbs
               /\ refcnt' = refs
               /\ pc' = pc
    /\ trace' = <<>>
    /\ api_ret' = NoRet
    /\ interrupted' = FALSE
    /\ UNCHANGED <<has_hotplug, alloc_faults, next_hotplug_cb_handle,
                   lock_owner, lock_count, event_flags, handling_flags, loc,
                   exited, nregs, deregd, stopped, pass_calls>>

\* The arrival bookkeeping of a record starts afresh once the device has left.
ForgetArrival(cbs, d) ==
    [i \in 1 .. Len(cbs) |->
        [cbs[i] EXCEPT !.seen[d] = [replay |-> 0, hook |-> 0]]]

DisconnectDevice(t, d, fails) ==
    /\ ~exited
    /\ pc[t] = "idle"
    /\ HooksDone < MaxHooks
    /\ d \in SeqToSet(usb_devs)
    /\ CanLock(t)
    /\ allocated' = allocated
    /\ usb_devs' = list_del(usb_devs, DevIndex(usb_devs, d))
    /\ LET r == hotplug_notification(hotplug_cbs, refcnt, d,
                                     LIBUSB_HOTPLUG_EVENT_DEVICE_LEFT, fails)
       IN IF has_hotplug
          THEN /\ hotplug_cbs' = ForgetArrival(r.cbs, d)
               /\ refcnt' = libusb_unref_device(r.refcnt, d)
               /\ pc' = [pc EXCEPT ![t] = IF r.notified THEN "hook_signal" ELSE "idle"]
          ELSE /\ hotplug_cbs' = hotplug_cbs
               /\ refcnt' = refcnt
               /\ pc' = pc
    /\ trace' = <<>>
    /\ api_ret' = NoRet
    /\ interrupted' = FALSE
    /\ UNCHANGED <<has_hotplug, alloc_faults, next_hotplug_cb_handle,
                   lock_owner, lock_count, event_flags, handling_flags, loc,
                   exited, nregs, deregd, stopped, pass_calls>>

\* signal that one or more hotplug callbacks got this notification
HookSignal(t) ==
    /\ pc[t] = "hook_signal"
    /\ event_flags' = event_flags \cup {"USBI_EVENT_HOTPLUG_NOTIFICATION_PENDING"}
    /\ pc' = [pc EXCEPT ![t] = "idle"]
    /\ trace' = <<>>
    /\ api_ret' = NoRet
    /\ interrupted' = FALSE
    /\ UNCHANGED <<has_hotplug, alloc_faults, hotplug_cbs, usb_devs, refcnt,
                   next_hotplug_cb_handle, lock_owner, lock_count,
                   handling_flags, loc, exited, nregs, allocated, deregd,
                   stopped, pass_calls>>


(***************************************************************************)
(* usbi_hotplug_process_notifications                                      *)
(***************************************************************************)
\* What a user callback does when the dispatcher invokes it: it may call
\* deregister on a handle (0: it makes no call) and it returns a value.
CallbackBehaviours == [ret : {0, 1}, dereg : {0} \cup Handles]

\* The event loop takes the pending signal and calls the dispatcher.
EventLoopTakesPending ==
    /\ "USBI_EVENT_HOTPLUG_NOTIFICATION_PENDING" \in event_flags
    /\ event_flags' = event_flags \ {"USBI_EVENT_HOTPLUG_NOTIFICATION_PENDING"}

ProcessBegin(t) ==
    /\ ~exited
    /\ pc[t] = "idle"
    /\ EventLoopTakesPending
    /\ handling_flags' = handling_flags \cup {"USBI_HANDLING_HOTPLUG_NOTIFICATIONS"}
    /\ pc' = [pc EXCEPT ![t] = "proc_lock"]
    /\ pass_calls' = {}
    /\ trace' = <<>>
    /\ api_ret' = NoRet
    /\ interrupted' = FALSE
    /\ UNCHANGED <<has_hotplug, alloc_faults, hotplug_cbs, usb_devs, refcnt,
                   next_hotplug_cb_handle, lock_owner, lock_count, loc,
                   exited, nregs, allocated, deregd, stopped>>

ProcessLock(t) ==
    /\ pc[t] = "proc_lock"
    /\ Acquire(t)
    /\ loc' = [loc EXCEPT ![t] = [NoLocals(t) EXCEPT !.cur = 1]]
    /\ pc' = [pc EXCEPT ![t] = "proc_loop"]
    /\ trace' = <<>>
    /\ api_ret' = NoRet
    /\ interrupted' = FALSE
    /\ UNCHANGED <<has_hotplug, alloc_faults, hotplug_cbs, usb_devs, refcnt,
                   next_hotplug_cb_handle, event_flags, handling_flags,
                   exited, nregs, allocated, deregd, stopped, pass_calls>>

\* nothing pending for this callback
ProcessSkip(t) ==
    /\ pc[t] = "proc_loop"
    /\ loc[t].cur <= Len(hotplug_cbs)
    /\ hotplug_cbs[loc[t].cur].notifications = <<>>
    /\ loc' = [loc EXCEPT ![t].cur = @ + 1]
    /\ trace' = <<>>
    /\ api_ret' = NoRet
    /\ interrupted' = FALSE
    /\ UNCHANGED <<has_hotplug, alloc_faults, hotplug_cbs, usb_devs, refcnt,
                   next_hotplug_cb_handle, lock_owner, lock_count,
                   event_flags, handling_flags, pc, exited, nregs, allocated,
                   deregd, stopped, pass_calls>>

\* Variant: the inner loop delivers the first notification only.
KeepsDelivering_OnlyFirst(cb, n, ret) ==
    /\ ret = 0
    /\ n < 1
    /\ BitAnd(cb.flags, USBI_HOTPLUG_NEEDS_FREE) = 0

\* Variant: the inner loop does not look at USBI_HOTPLUG_NEEDS_FREE.
KeepsDelivering_IgnoresNeedsFree(cb, n, ret) ==
    /\ ret = 0
    /\ n < Len(cb.notifications)

\* The inner loop goes on to notification n of record cb.
KeepsDelivering(cb, n, ret) ==
    /\ ret = 0
    /\ n < Len(cb.notifications)
    /\ BitAnd(cb.flags, USBI_HOTPLUG_NEEDS_FREE) = 0

\* Variant: the queue is walked from its end.
notification_at_FromEnd(cb, n) == cb.notifications[Len(cb.notifications) - n]

\* &hotplug_cb->notifications[n], n counting from 0
notification_at(cb, n) == cb.notifications[n + 1]

\* One invocation of the callback of the current record.
ProcessInvoke(t, b) ==
    /\ pc[t] = "proc_loop"
    /\ loc[t].cur <= Len(hotplug_cbs)
    /\ LET cb == hotplug_cbs[loc[t].cur]
           notification == notification_at(cb, loc[t].n)
       IN /\ cb.notifications # <<>>
          /\ KeepsDelivering(cb, loc[t].n, loc[t].ret)
          /\ trace' = <<[id |-> cb.id, device |-> notification.device,
                         event |-> notification.event, via |-> "dispatch"]>>
          /\ pass_calls' = pass_calls \cup {cb.id}
          /\ stopped' = IF b.ret # 0 THEN stopped \cup {cb.id} ELSE stopped
    /\ IF b.dereg = 0
       THEN /\ loc' = [loc EXCEPT ![t].ret = b.ret, ![t].n = @ + 1,
                                  ![t].cb_dereg = 0]
            /\ pc' = pc
       ELSE /\ loc' = [loc EXCEPT ![t].cb_ret = b.ret, ![t].cb_dereg = b.dereg]
            /\ pc' = [pc EXCEPT ![t] = "cb_dereg"]
    /\ api_ret' = NoRet
    /\ interrupted' = FALSE
    /\ UNCHANGED <<has_hotplug, alloc_faults, hotplug_cbs, usb_devs, refcnt,
                   next_hotplug_cb_handle, lock_owner, lock_count,
                   event_flags, handling_flags, exited, nregs, allocated, deregd>>

\* The callback being invoked calls deregister, then returns.  cb_dereg
\* keeps a handle that no record carried until the dispatcher goes on.
CallbackDeregister(t) ==
    /\ pc[t] = "cb_dereg"
    /\ CanLock(t)
    /\ LET r == deregister_locked(hotplug_cbs, refcnt, handling_flags,
                                  loc[t].cb_dereg)
       IN /\ hotplug_cbs' = r.cbs
          /\ refcnt' = r.refcnt
          /\ handling_flags' = r.hflags
          /\ deregd' = IF r.found THEN deregd \cup {r.id} ELSE deregd
          /\ interrupted' = (r.found /\ ~usbi_handling_events(t))
    /\ loc' = [loc EXCEPT ![t].ret = loc[t].cb_ret, ![t].n = @ + 1,
                          ![t].cb_ret = 0,
                          ![t].cb_dereg =
                              IF FindHandle(hotplug_cbs, loc[t].cb_dereg) = 0
                              THEN @ ELSE 0]
    /\ pc' = [pc EXCEPT ![t] = "proc_loop"]
    /\ trace' = <<>>
    /\ api_ret' = NoRet
    /\ UNCHANGED <<has_hotplug, alloc_faults, usb_devs,
                   next_hotplug_cb_handle, lock_owner, lock_count, event_flags,
                   exited, nregs, allocated, stopped, pass_calls>>

\* Variant: the notifications list is reset with its references still held.
finish_record_KeepsRefs(cbs, refs, i, ret) ==
    IF ret # 0
    THEN free_hotplug_cb(cbs, refs, i)
    ELSE [cbs |-> [cbs EXCEPT ![i].notifications = <<>>],
          refcnt |-> refs]

\* Variant: the return value of the callback is not looked at.
finish_record_AlwaysRearm(cbs, refs, i, ret) ==
    [cbs |-> [cbs EXCEPT ![i].notifications = <<>>],
     refcnt |-> unref_notifications(refs, cbs[i].notifications)]

\* After the inner loop: free the record if its callback is done, else
\* unref the devices and reset the notifications list.
finish_record(cbs, refs, i, ret) ==
    IF ret # 0
    THEN free_hotplug_cb(cbs, refs, i)
    ELSE [cbs |-> [cbs EXCEPT ![i].notifications = <<>>],
          refcnt |-> unref_notifications(refs, cbs[i].notifications)]

ProcessFinish(t) ==
    /\ pc[t] = "proc_loop"
    /\ loc[t].cur <= Len(hotplug_cbs)
    /\ hotplug_cbs[loc[t].cur].notifications # <<>>
    /\ ~KeepsDelivering(hotplug_cbs[loc[t].cur], loc[t].n, loc[t].ret)
    /\ LET r == finish_record(hotplug_cbs, refcnt, loc[t].cur, loc[t].ret)
       IN /\ hotplug_cbs' = r.cbs
          /\ refcnt' = r.refcnt
    /\ loc' = [loc EXCEPT ![t].cur = IF loc[t].ret # 0 THEN @ ELSE @ + 1,
                          ![t].n = 0, ![t].ret = 0, ![t].cb_dereg = 0]
    /\ trace' = <<>>
    /\ api_ret' = NoRet
    /\ interrupted' = FALSE
    /\ UNCHANGED <<has_hotplug, alloc_faults, usb_devs,
                   next_hotplug_cb_handle, lock_owner, lock_count,
                   event_flags, handling_flags, pc, exited, nregs, allocated,
                   deregd, stopped, pass_calls>>

\* The second sweep: free the records marked USBI_HOTPLUG_NEEDS_FREE, from
\* the i-th on.
RECURSIVE sweep_needs_free(_, _, _)
sweep_needs_free(cbs, refs, i) ==
    IF i > Len(cbs) THEN [cbs |-> cbs, refcnt |-> refs]
    ELSE IF BitAnd(cbs[i].flags, USBI_HOTPLUG_NEEDS_FREE) # 0
    THEN sweep_needs_free(free_hotplug_cb(cbs, refs, i).cbs,
                          free_hotplug_cb(cbs, refs, i).refcnt, i)
    ELSE sweep_needs_free(cbs, refs, i + 1)

ProcessSweep(t) ==
    /\ pc[t] = "proc_loop"
    /\ loc[t].cur > Len(hotplug_cbs)
    /\ LET r == IF "USBI_HOTPLUG_CB_FREED" \in handling_flags
                THEN sweep_needs_free(hotplug_cbs, refcnt, 1)
                ELSE [cbs |-> hotplug_cbs, refcnt |-> refcnt]
       IN /\ hotplug_cbs' = r.cbs
          /\ refcnt' = r.refcnt
    /\ Release(t)
    /\ loc' = [loc EXCEPT ![t] = NoLocals(t)]
    /\ pc' = [pc EXCEPT ![t] = "proc_end"]
    /\ trace' = <<>>
    /\ api_ret' = NoRet
    /\ interrupted' = FALSE
    /\ UNCHANGED <<has_hotplug, alloc_faults, usb_devs,
                   next_hotplug_cb_handle, event_flags, handling_flags,
                   exited, nregs, allocated, deregd, stopped, pass_calls>>

ProcessEnd(t) ==
    /\ pc[t] = "proc_end"
    /\ handling_flags' = handling_flags \ {"USBI_HANDLING_HOTPLUG_NOTIFICATIONS"}
    /\ pc' = [pc EXCEPT ![t] = "idle"]
    /\ trace' = <<>>
    /\ pass_calls' = {}
    /\ api_ret' = NoRet
    /\ interrupted' = FALSE
    /\ UNCHANGED <<has_hotplug, alloc_faults, hotplug_cbs, usb_devs, refcnt,
                   next_hotplug_cb_handle, lock_owner, lock_count,
                   event_flags, loc, exited, nregs, allocated, deregd, stopped>>

(***************************************************************************)
(* usbi_hotplug_exit, called by libusb_exit once no thread uses the        *)
(* context any more.                                                       *)
(***************************************************************************)
RECURSIVE free_all_cbs(_, _)
free_all_cbs(cbs, refs) ==
    IF cbs = <<>> THEN [cbs |-> cbs, refcnt |-> refs]
    ELSE free_all_cbs(free_hotplug_cb(cbs, refs, 1).cbs,
                      free_hotplug_cb(cbs, refs, 1).refcnt)

\* Variant: the devices are unlinked with the list's references still held.
unref_devices_KeepsRefs(refs, devs) == refs

RECURSIVE unref_devices(_, _)
unref_devices(refs, devs) ==
    IF devs = <<>> THEN refs
    ELSE unref_devices(libusb_unref_device(refs, Head(devs)), Tail(devs))

usbi_hotplug_exit ==
    /\ ~exited
    /\ \A t \in Threads : pc[t] = "idle"
    /\ exited' = TRUE
    /\ IF ~has_hotplug
       THEN UNCHANGED <<hotplug_cbs, usb_devs, refcnt>>
       ELSE LET r == free_all_cbs(hotplug_cbs, refcnt)
            IN /\ hotplug_cbs' = r.cbs
               /\ usb_devs' = <<>>
               /\ refcnt' = unref_devices(r.refcnt, usb_devs)
    /\ trace' = <<>>
    /\ api_ret' = NoRet
    /\ interrupted' = FALSE
    /\ UNCHANGED <<has_hotplug, alloc_faults, next_hotplug_cb_handle,
                   lock_owner, lock_count, event_flags, handling_flags, pc,
                   loc, nregs, allocated, deregd, stopped, pass_calls>>

(***************************************************************************)
(* libusb_hotplug_get_user_data                                            *)
(***************************************************************************)
\* The user data of the first record carrying handle h, NULL if there is none.
lookup_user_data(cbs, h) ==
    IF FindHandle(cbs, h) = 0 THEN NULL ELSE cbs[FindHandle(cbs, h)].user_data

\* What the call returned, as the output of the last step.
UserDataRet(h, user_data) ==
    [args |-> NoArgs, code |-> "get_user_data", handle |-> h, id |-> 0,
     replayed |-> <<>>, user_data |-> user_data]

\* The whole call.  After the search the source calls usbi_mutex_lock a
\* second time where the unlock belongs: on a recursive mutex the caller
\* returns holding the lock two levels deeper, on a normal mutex the second
\* lock never returns.
GetUserData(t, h) ==
    /\ ~exited
    /\ pc[t] = "idle"
    /\ IF ~has_hotplug
       THEN /\ api_ret' = UserDataRet(h, NULL)
            /\ UNCHANGED <<lock_owner, lock_count, pc>>
       ELSE /\ CanLock(t)
            /\ lock_count + 2 <= MaxLockDepth
            /\ lock_owner' = t
            /\ IF mutex_type(usb_devs_lock_recursive) = "PTHREAD_MUTEX_RECURSIVE"
               THEN /\ lock_count' = lock_count + 2
                    /\ api_ret' = UserDataRet(h, lookup_user_data(hotplug_cbs, h))
                    /\ pc' = pc
               ELSE /\ lock_count' = lock_count + 1
                    /\ api_ret' = NoRet
                    /\ pc' = [pc EXCEPT ![t] = "get_blocked"]
    /\ trace' = <<>>
    /\ interrupted' = FALSE
    /\ UNCHANGED <<has_hotplug, alloc_faults, hotplug_cbs, usb_devs, refcnt,
                   next_hotplug_cb_handle, event_flags, handling_flags, loc,
                   exited, nregs, allocated, deregd, stopped, pass_calls>>

\* The callback the dispatcher is invoking calls get_user_data before it
\* goes on to its deregister call.  The dispatcher thread holds the lock once
\* already; the call locks it twice more.
CallbackGetUserData(t, h) ==
    /\ pc[t] = "cb_dereg"
    /\ CanLock(t)
    /\ mutex_type(usb_devs_lock_recursive) = "PTHREAD_MUTEX_RECURSIVE"
    /\ lock_count + 2 <= MaxLockDepth
    /\ lock_owner' = t
    /\ lock_count' = lock_count + 2
    /\ api_ret' = UserDataRet(h, lookup_user_data(hotplug_cbs, h))
    /\ trace' = <<>>
    /\ interrupted' = FALSE
    /\ UNCHANGED <<has_hotplug, alloc_faults, hotplug_cbs, usb_devs, refcnt,
                   next_hotplug_cb_handle, event_flags, handling_flags, pc, loc,
                   exited, nregs, allocated, deregd, stopped, pass_calls>>

(***************************************************************************)
(* Inputs and the next-state relation.                                     *)
(***************************************************************************)
RegArgs(events, flags, vendor_id, product_id, dev_class, callback) ==
    [events |-> events, flags |-> flags, vendor_id |-> vendor_id,
     product_id |-> product_id, dev_class |-> dev_class,
     callback |-> callback, user_data |-> "ud"]

\* The registrations the application thread makes.
CoreArgs ==
    {RegArgs(3, 1, -1, -1, -1, "fn"),
     RegArgs(1, 1, 4660, -1, -1, "fn"),
     RegArgs(2, 0, -1, 2, -1, "fn"),
     RegArgs(3, 0, -1, -1, 9, "fn")}

MallocOutcomes == IF alloc_faults THEN BOOLEAN ELSE {TRUE}

ReallocFailures == IF alloc_faults THEN SUBSET (1 .. Len(hotplug_cbs)) ELSE {{}}

ReplayReturns == UNION {[1 .. k -> {0, 1}] : k \in 0 .. Cardinality(Devices)}

Next ==
    \/ \E t \in AppThreads, a \in CoreArgs, m \in MallocOutcomes, rets \in ReplayReturns :
           RegisterEnumerate(t, a, m, rets)
    \/ \E t \in AppThreads : RegisterAdd(t)
    \/ \E t \in AppThreads, h \in Handles : DeregisterLocked(t, h)
    \/ \E t \in AppThreads : DeregisterSignal(t)
    \/ \E t \in HookThreads, d \in Devices, f \in ReallocFailures : ConnectDevice(t, d, f)
    \/ \E t \in HookThreads, d \in Devices, f \in ReallocFailures : DisconnectDevice(t, d, f)
    \/ \E t \in HookThreads : HookSignal(t)
    \/ \E t \in EventThreads : ProcessBegin(t)
    \/ \E t \in EventThreads : ProcessLock(t)
    \/ \E t \in EventThreads : ProcessSkip(t)
    \/ \E t \in EventThreads, b \in CallbackBehaviours : ProcessInvoke(t, b)
    \/ \E t \in EventThreads : CallbackDeregister(t)
    \/ \E t \in EventThreads : ProcessFinish(t)
    \/ \E t \in EventThreads : ProcessSweep(t)
    \/ \E t \in EventThreads : ProcessEnd(t)
    \/ usbi_hotplug_exit

Spec == Init /\ [][Next]_vars


(***************************************************************************)
(* The same system on a hotplug-capable platform with its scheduling: a    *)
(* hook that has queued a notification goes on to raise the signal, and    *)
(* the event loop takes the signal whenever it is set and runs the         *)
(* dispatcher to its end.                                                  *)
(***************************************************************************)
InitLive ==
    /\ has_hotplug = TRUE
    /\ alloc_faults = FALSE
    /\ InitContext

\* The registrations the application thread makes in this system.
LiveArgs ==
    {RegArgs(3, 1, -1, -1, -1, "fn")}

\* The handles the application passes to deregister in this system: those
\* its registrations can have returned.
LiveHandles == 1 .. MaxRegs

LiveBehaviours == [ret : {0, 1}, dereg : {0} \cup LiveHandles]

EventLoopStep ==
    \/ \E t \in EventThreads : ProcessBegin(t)
    \/ \E t \in EventThreads : ProcessLock(t)
    \/ \E t \in EventThreads : ProcessSkip(t)
    \/ \E t \in EventThreads, b \in LiveBehaviours : ProcessInvoke(t, b)
    \/ \E t \in EventThreads : CallbackDeregister(t)
    \/ \E t \in EventThreads : ProcessFinish(t)
    \/ \E t \in EventThreads : ProcessSweep(t)
    \/ \E t \in EventThreads : ProcessEnd(t)

HookReturns == \E t \in HookThreads : HookSignal(t)

\* A register or deregister call that has begun goes on to its return.
CallReturns ==
    \/ \E t \in AppThreads : RegisterAdd(t)
    \/ \E t \in AppThreads : DeregisterSignal(t)

NextLive ==
    \/ \E t \in AppThreads, a \in LiveArgs, m \in MallocOutcomes, rets \in ReplayReturns :
           RegisterEnumerate(t, a, m, rets)
    \/ \E t \in AppThreads, h \in LiveHandles : DeregisterLocked(t, h)
    \/ CallReturns
    \/ \E t \in HookThreads, d \in Devices, f \in ReallocFailures : ConnectDevice(t, d, f)
    \/ \E t \in HookThreads, d \in Devices, f \in ReallocFailures : DisconnectDevice(t, d, f)
    \/ HookReturns
    \/ EventLoopStep
    \/ usbi_hotplug_exit

SpecLive ==
    /\ InitLive
    /\ [][NextLive]_vars
    /\ WF_vars(CallReturns)
    /\ WF_vars(HookReturns)
    /\ WF_vars(EventLoopStep)

(***************************************************************************)
(* The system on a hotplug-capable platform with get_user_data calls, made *)
(* by the application thread and by callbacks the dispatcher invokes.      *)
(***************************************************************************)
NextLookup ==
    \/ \E t \in AppThreads, a \in LiveArgs, m \in MallocOutcomes, rets \in ReplayReturns :
           RegisterEnumerate(t, a, m, rets)
    \/ \E t \in AppThreads, h \in LiveHandles : DeregisterLocked(t, h)
    \/ CallReturns
    \/ \E t \in AppThreads, h \in LiveHandles : GetUserData(t, h)
    \/ \E t \in HookThreads, d \in Devices, f \in ReallocFailures : ConnectDevice(t, d, f)
    \/ \E t \in HookThreads, d \in Devices, f \in ReallocFailures : DisconnectDevice(t, d, f)
    \/ HookReturns
    \/ EventLoopStep
    \/ \E t \in EventThreads, h \in LiveHandles : CallbackGetUserData(t, h)
    \/ usbi_hotplug_exit

SpecLookup == InitLive /\ [][NextLookup]_vars

(***************************************************************************)
(* Registrations and device hooks on a system short of memory: any calloc  *)
(* of a record and any realloc of a notification queue may fail.           *)
(***************************************************************************)
InitOOM ==
    /\ has_hotplug = TRUE
    /\ alloc_faults = TRUE
    /\ InitContext

NextOOM ==
    \/ \E t \in AppThreads, a \in CoreArgs, m \in MallocOutcomes, rets \in ReplayReturns :
           RegisterEnumerate(t, a, m, rets)
    \/ \E t \in AppThreads : RegisterAdd(t)
    \/ \E t \in HookThreads, d \in Devices, f \in ReallocFailures : ConnectDevice(t, d, f)
    \/ \E t \in HookThreads, d \in Devices, f \in ReallocFailures : DisconnectDevice(t, d, f)
    \/ \E t \in HookThreads : HookSignal(t)

SpecOOM == InitOOM /\ [][NextOOM]_vars

(***************************************************************************)
(* A single register_callback call, with parameters from the whole matrix, *)
(* on a context whose backend has attached any of the devices beforehand.  *)
(***************************************************************************)
AllArgs ==
    {RegArgs(e, f, v, p, c, k) :
        e \in {-1, 0, 1, 2, 3, 4, 7},
        f \in {-1, 0, 1, 2, 3},
        v \in {-2, -1, 0, 4660, 65535, 65536},
        p \in {-1, 2, 65536},
        c \in {-1, 9, 255, 256},
        k \in {NULL, "fn"}}

\* The live lists the backend can have built: the devices in any order.
LiveLists ==
    {l \in UNION {[1 .. k -> Devices] : k \in 0 .. NumDevices} :
        \A i, j \in DOMAIN l : i # j => l[i] # l[j]}

InitArgs ==
    /\ has_hotplug \in BOOLEAN
    /\ alloc_faults = FALSE
    /\ usbi_hotplug_init
    /\ usb_devs \in LiveLists
    /\ refcnt = [d \in Devices |-> IF d \in SeqToSet(usb_devs) THEN 1 ELSE 0]
    /\ allocated = SeqToSet(usb_devs)
    /\ lock_owner = NoThread
    /\ lock_count = 0
    /\ event_flags = {}
    /\ handling_flags = {}
    /\ pc = [t \in Threads |-> "idle"]
    /\ loc = [t \in Threads |-> NoLocals(t)]
    /\ api_ret = NoRet
    /\ exited = FALSE
    /\ nregs = 0
    /\ trace = <<>>
    /\ interrupted = FALSE
    /\ deregd = {}
    /\ stopped = {}
    /\ pass_calls = {}

NextArgs ==
    \/ /\ nregs = 0
       /\ api_ret.code = "none"
       /\ \E t \in AppThreads, a \in AllArgs, m \in MallocOutcomes, rets \in ReplayReturns :
              RegisterEnumerate(t, a, m, rets)
    \/ \E t \in AppThreads : RegisterAdd(t)

SpecArgs == InitArgs /\ [][NextArgs]_vars

(***************************************************************************)
(* The application thread also looks user data up, next to registering,    *)
(* deregistering and the device hooks.                                     *)
(***************************************************************************)
NextUserData ==
    \/ \E t \in AppThreads, a \in CoreArgs, m \in MallocOutcomes, rets \in ReplayReturns :
           RegisterEnumerate(t, a, m, rets)
    \/ \E t \in AppThreads : RegisterAdd(t)
    \/ \E t \in AppThreads, h \in Handles : DeregisterLocked(t, h)
    \/ \E t \in AppThreads : DeregisterSignal(t)
    \/ \E t \in AppThreads, h \in Handles : GetUserData(t, h)
    \/ \E t \in HookThreads, d \in Devices, f \in ReallocFailures : ConnectDevice(t, d, f)
    \/ \E t \in HookThreads, d \in Devices, f \in ReallocFailures : DisconnectDevice(t, d, f)
    \/ \E t \in HookThreads : HookSignal(t)

SpecUserData == Init /\ [][NextUserData]_vars

(***************************************************************************)
(* Registrations on a context that has already given out handles: the     *)
(* counter stands anywhere in its range, the records registered earlier    *)
(* are gone.                                                               *)
(***************************************************************************)
InitHandles ==
    /\ has_hotplug = TRUE
    /\ alloc_faults = FALSE
    /\ hotplug_cbs = <<>>
    /\ next_hotplug_cb_handle \in Handles
    /\ usb_devs \in LiveLists
    /\ refcnt = [d \in Devices |-> IF d \in SeqToSet(usb_devs) THEN 1 ELSE 0]
    /\ allocated = SeqToSet(usb_devs)
    /\ lock_owner = NoThread
    /\ lock_count = 0
    /\ event_flags = {}
    /\ handling_flags = {}
    /\ pc = [t \in Threads |-> "idle"]
    /\ loc = [t \in Threads |-> NoLocals(t)]
    /\ api_ret = NoRet
    /\ exited = FALSE
    /\ nregs = 0
    /\ trace = <<>>
    /\ interrupted = FALSE
    /\ deregd = {}
    /\ stopped = {}
    /\ pass_calls = {}

NextHandles ==
    \/ \E t \in AppThreads, a \in CoreArgs, m \in MallocOutcomes, rets \in ReplayReturns :
           RegisterEnumerate(t, a, m, rets)
    \/ \E t \in AppThreads : RegisterAdd(t)

SpecHandles == InitHandles /\ [][NextHandles]_vars

(***************************************************************************)
(* The claims.                                                             *)
(***************************************************************************)
\* What the interface says of the parameters, in its own terms.
EventMasks ==
    {LIBUSB_HOTPLUG_EVENT_DEVICE_ARRIVED, LIBUSB_HOTPLUG_EVENT_DEVICE_LEFT,
     LIBUSB_HOTPLUG_EVENT_DEVICE_ARRIVED + LIBUSB_HOTPLUG_EVENT_DEVICE_LEFT}

FlagMasks == {0, LIBUSB_HOTPLUG_ENUMERATE}

ParamsRejected(a) ==
    \/ a.events \notin EventMasks
    \/ a.flags \notin FlagMasks
    \/ a.vendor_id \notin {LIBUSB_HOTPLUG_MATCH_ANY} \cup (0 .. 65535)
    \/ a.product_id \notin {LIBUSB_HOTPLUG_MATCH_ANY} \cup (0 .. 65535)
    \/ a.dev_class \notin {LIBUSB_HOTPLUG_MATCH_ANY} \cup (0 .. 255)
    \/ a.callback = NULL

Returned == api_ret.code # "none"

\* C1 as stated: without hotplug capability every register_callback call
\* returns NotSupported, whatever its parameters.
C1_NotSupportedWhateverParams ==
    (~has_hotplug /\ Returned) => api_ret.code = LIBUSB_ERROR_NOT_SUPPORTED

\* C1 amended: without hotplug capability no register_callback call succeeds:
\* it returns InvalidParam when a parameter is invalid (the parameters are
\* checked first) and NotSupported otherwise.
C1_NotSupportedAfterValidation ==
    (~has_hotplug /\ Returned) =>
        api_ret.code = IF ParamsRejected(api_ret.args)
                       THEN LIBUSB_ERROR_INVALID_PARAM
                       ELSE LIBUSB_ERROR_NOT_SUPPORTED

C1_Witness ==
    /\ ~has_hotplug
    /\ api_ret.code = LIBUSB_ERROR_NOT_SUPPORTED
    /\ api_ret.args.vendor_id = 4660

\* C2: with hotplug capability (and memory available) register_callback
\* returns InvalidParam exactly for the parameters the interface rejects, and
\* succeeds for every other input.
C2_InvalidParamExactly ==
    (has_hotplug /\ Returned) =>
        api_ret.code = IF ParamsRejected(api_ret.args)
                       THEN LIBUSB_ERROR_INVALID_PARAM
                       ELSE LIBUSB_SUCCESS

C2_Witness ==
    /\ has_hotplug
    /\ api_ret.code = LIBUSB_ERROR_INVALID_PARAM
    /\ api_ret.args.vendor_id = 65536
    /\ api_ret.args.events = 3
    /\ api_ret.args.callback # NULL

\* The records of the registry, by identity.
RegIds == {hotplug_cbs[i].id : i \in 1 .. Len(hotplug_cbs)}

\* The record was deregistered during a dispatch and awaits destruction.
MarkedForFree(cb) == BitAnd(cb.flags, USBI_HOTPLUG_NEEDS_FREE) # 0

\* The event mask contains the event.
MaskContains(mask, event) ==
    mask = event
    \/ mask = LIBUSB_HOTPLUG_EVENT_DEVICE_ARRIVED + LIBUSB_HOTPLUG_EVENT_DEVICE_LEFT

\* Each present filter of the registration equals the device's field.
FiltersPass(a, d) ==
    /\ a.vendor_id = LIBUSB_HOTPLUG_MATCH_ANY
       \/ a.vendor_id = device_descriptor(d).idVendor
    /\ a.product_id = LIBUSB_HOTPLUG_MATCH_ANY
       \/ a.product_id = device_descriptor(d).idProduct
    /\ a.dev_class = LIBUSB_HOTPLUG_MATCH_ANY
       \/ a.dev_class = device_descriptor(d).bDeviceClass

\* The registration asks for the enumeration replay.
WantsReplay(a) ==
    /\ a.flags = LIBUSB_HOTPLUG_ENUMERATE
    /\ MaskContains(a.events, LIBUSB_HOTPLUG_EVENT_DEVICE_ARRIVED)

Live == SeqToSet(usb_devs)

InLive(d) == IF d \in Live THEN 1 ELSE 0

\* The queued notifications, over all records, that reference device d.
RECURSIVE QueuedFrom(_, _)
QueuedFrom(i, d) ==
    IF i > Len(hotplug_cbs) THEN 0
    ELSE CountDev(hotplug_cbs[i].notifications, d) + QueuedFrom(i + 1, d)

Queued(d) == QueuedFrom(1, d)

Dispatching(t) == pc[t] \in {"proc_loop", "cb_dereg"}

\* C3: a callback that calls deregister while the dispatcher invokes it finds
\* the registry lock available to its thread (no deadlock, the lock being
\* re-entrant), and the dispatcher never invokes the callback of a record
\* that is marked as deregistered, whatever is left in its queue.
C3_ReentrantDeregister ==
    /\ \A t \in EventThreads : pc[t] = "cb_dereg" => CanLock(t)
    /\ \A k \in 1 .. Len(trace), i \in 1 .. Len(hotplug_cbs) :
           (trace[k].via = "dispatch" /\ hotplug_cbs[i].id = trace[k].id)
               => ~MarkedForFree(hotplug_cbs[i])

\* A callback of this pass deregistered the current record, which was invoked
\* in this pass and has a notification left that was not delivered.
C3_Witness ==
    \E t \in EventThreads :
        /\ pc[t] = "proc_loop"
        /\ loc[t].cur <= Len(hotplug_cbs)
        /\ LET cb == hotplug_cbs[loc[t].cur]
           IN /\ MarkedForFree(cb)
              /\ cb.id \in pass_calls
              /\ cb.id \in deregd
              /\ loc[t].ret = 0
              /\ loc[t].n < Len(cb.notifications)

\* C4: once deregister has returned for a registered handle, no callback
\* invocation is made for that record, by the dispatcher or by anyone else.
C4_NoCallbackAfterDeregister ==
    \A k \in 1 .. Len(trace) : trace[k].id \notin deregd

\* The application thread deregistered a record with notifications queued
\* while a dispatch pass was starting on the event thread; the pass now
\* walks the registry and has invoked nothing yet.
C4_Witness ==
    \E i \in 1 .. Len(hotplug_cbs) :
        /\ hotplug_cbs[i].id \in deregd
        /\ hotplug_cbs[i].notifications # <<>>
        /\ pc["ev"] = "proc_loop"
        /\ loc["ev"].cur <= i
        /\ pass_calls = {}

\* C5: a record registered with Enumerate and with Arrived in its mask has
\* seen the arrival of a device exactly once (by the replay or by one queued
\* notification) when the device is live and passes its filters, and not at
\* all otherwise.
C5_ArrivalSeenOnce ==
    \A i \in 1 .. Len(hotplug_cbs), d \in Devices :
        WantsReplay(hotplug_cbs[i].args) =>
            hotplug_cbs[i].seen[d].replay + hotplug_cbs[i].seen[d].hook
                = IF d \in Live /\ FiltersPass(hotplug_cbs[i].args, d)
                  THEN 1 ELSE 0

\* One record saw one device by the replay and the other by the hook.
C5_Witness ==
    \E i \in 1 .. Len(hotplug_cbs), d1, d2 \in Devices :
        /\ WantsReplay(hotplug_cbs[i].args)
        /\ hotplug_cbs[i].seen[d1] = [replay |-> 1, hook |-> 0]
        /\ hotplug_cbs[i].seen[d2] = [replay |-> 0, hook |-> 1]

\* C6: when register_callback returns success, it has invoked the callback
\* once for each live device that passes the filters if Enumerate is set and
\* Arrived is in the mask, and for no device otherwise; the record is in the
\* registry whatever these invocations returned.
C6_ReplayOncePerLiveMatch ==
    api_ret.code = LIBUSB_SUCCESS =>
        /\ \A d \in Devices :
               Cardinality({k \in 1 .. Len(api_ret.replayed) :
                               api_ret.replayed[k].device = d})
                   = IF WantsReplay(api_ret.args) /\ d \in Live
                        /\ FiltersPass(api_ret.args, d)
                     THEN 1 ELSE 0
        /\ api_ret.id \in RegIds

\* Two devices were replayed and the callback returned non-zero for both.
C6_Witness ==
    /\ api_ret.code = LIBUSB_SUCCESS
    /\ Len(api_ret.replayed) = NumDevices
    /\ \A k \in 1 .. Len(api_ret.replayed) : api_ret.replayed[k].ret # 0
    /\ api_ret.id \in RegIds

\* C7: the reference count of a device is at least the number of queued
\* notifications that reference it, plus one if it is in the live list.
C7_QueuedDeviceReferenced ==
    \A d \in Devices : refcnt[d] >= Queued(d) + InLive(d)

\* A device that left the live list is kept by its queued notifications.
C7_Witness ==
    \E d \in allocated :
        /\ d \notin Live
        /\ Queued(d) = 2
        /\ refcnt[d] = 2

\* C8: with hotplug capability, the references held on a device are exactly
\* one per queued notification that references it, plus one if it is in the
\* live list: every removal of a notification released its reference once.
C8_ReferencesBalanced ==
    has_hotplug =>
        \A d \in Devices : refcnt[d] = Queued(d) + InLive(d)

\* A callback deregistered its own record and returned non-zero; the record
\* is destroyed, the pass goes on, and a device that left has no reference.
C8_Witness ==
    /\ pc["ev"] = "proc_loop"
    /\ "USBI_HOTPLUG_CB_FREED" \in handling_flags
    /\ \E id \in stopped \cap deregd : id \in pass_calls /\ id \notin RegIds
    /\ \E d \in allocated : d \notin Live /\ refcnt[d] = 0

\* C9: a record whose callback returned non-zero in a dispatch is in the
\* registry only until the dispatcher is done with it, and its callback is
\* not invoked after that return; a record invoked in the pass whose callback
\* returned zero each time and that was not deregistered is in the registry
\* during and after the pass, and its queue is empty when the walk ends.
C9_StopOrRearm ==
    /\ \A i \in 1 .. Len(hotplug_cbs) :
           hotplug_cbs[i].id \in stopped =>
               \E t \in EventThreads :
                   /\ Dispatching(t)
                   /\ loc[t].cur = i
                   /\ loc[t].ret # 0 \/ loc[t].cb_ret # 0
    /\ \A k \in 1 .. Len(trace) :
           trace[k].id \in stopped =>
               \E t \in EventThreads : loc[t].ret # 0 \/ loc[t].cb_ret # 0
    /\ \A id \in pass_calls \ (stopped \cup deregd) :
           (\A t \in AppThreads : pc[t] # "dereg_signal") => id \in RegIds
    /\ \A t \in EventThreads, i \in 1 .. Len(hotplug_cbs) :
           (pc[t] = "proc_loop" /\ loc[t].cur > Len(hotplug_cbs)
            /\ hotplug_cbs[i].id \in pass_calls \ (stopped \cup deregd))
               => hotplug_cbs[i].notifications = <<>>

\* The walk of a pass has ended: one record returned non-zero and is gone,
\* another returned zero and stays with its queue drained.
C9_Witness ==
    \E t \in EventThreads :
        /\ pc[t] = "proc_loop"
        /\ loc[t].cur > Len(hotplug_cbs)
        /\ \E id \in pass_calls \cap stopped : id \notin RegIds
        /\ \E i \in 1 .. Len(hotplug_cbs) :
               /\ hotplug_cbs[i].id \in pass_calls \ (stopped \cup deregd)
               /\ hotplug_cbs[i].notifications = <<>>

HotplugEvents ==
    {LIBUSB_HOTPLUG_EVENT_DEVICE_ARRIVED, LIBUSB_HOTPLUG_EVENT_DEVICE_LEFT}

\* The step is a device hook: the device enters or leaves the live list.
HookStep(d, event) ==
    /\ has_hotplug
    /\ ~exited'
    /\ IF event = LIBUSB_HOTPLUG_EVENT_DEVICE_ARRIVED
       THEN d \notin Live /\ d \in SeqToSet(usb_devs')
       ELSE d \in Live /\ d \notin SeqToSet(usb_devs')

\* C10: a device hook appends one notification (the event, the device) to
\* the queue of each registered record whose mask contains the event and
\* whose present filters equal the device's fields, and leaves every other
\* queue as it was.
C10_HookQueuesPerMatch ==
    [][\A d \in Devices, event \in HotplugEvents :
           HookStep(d, event) =>
               /\ Len(hotplug_cbs') = Len(hotplug_cbs)
               /\ \A i \in 1 .. Len(hotplug_cbs) :
                      hotplug_cbs'[i].notifications
                          = IF MaskContains(hotplug_cbs[i].args.events, event)
                               /\ FiltersPass(hotplug_cbs[i].args, d)
                            THEN Append(hotplug_cbs[i].notifications,
                                        [event |-> event, device |-> d])
                            ELSE hotplug_cbs[i].notifications]_vars

\* An arrival was queued for a record without filters and not for an older
\* record whose vendor filter the device fails; no pass has run since.
C10_Witness ==
    /\ pc["ev"] = "idle"
    /\ \E i, j \in 1 .. Len(hotplug_cbs) :
           /\ j < i
           /\ hotplug_cbs[j].args.vendor_id # LIBUSB_HOTPLUG_MATCH_ANY
           /\ MaskContains(hotplug_cbs[j].args.events,
                           LIBUSB_HOTPLUG_EVENT_DEVICE_ARRIVED)
           /\ hotplug_cbs[j].notifications = <<>>
           /\ hotplug_cbs[i].notifications # <<>>
           /\ LET last == hotplug_cbs[i].notifications[
                              Len(hotplug_cbs[i].notifications)]
              IN /\ last.event = LIBUSB_HOTPLUG_EVENT_DEVICE_ARRIVED
                 /\ ~FiltersPass(hotplug_cbs[j].args, last.device)

\* C11: get_user_data returns the user data of the registered record that
\* carries the handle (nothing when no record does or the platform has no
\* hotplug support) and leaves the registry with its queues, the live list,
\* the reference counts and the registry lock as they were before the call.
C11_GetUserDataReadOnly ==
    [][\A t \in AppThreads, h \in Handles :
           GetUserData(t, h) =>
               /\ api_ret'.user_data
                      = IF has_hotplug
                           /\ \E i \in 1 .. Len(hotplug_cbs) : hotplug_cbs[i].handle = h
                        THEN "ud" ELSE NULL
               /\ UNCHANGED <<hotplug_cbs, usb_devs, refcnt>>
               /\ UNCHANGED <<lock_owner, lock_count>>]_vars

\* The records that were destroyed after a deregistration or after their
\* callback asked for it.
Destroyed == (deregd \cup stopped) \ RegIds

\* C12: before the handle counter wraps, the k-th successful registration
\* of a context returns handle k (1, 2, ... in turn), so the registered
\* records carry different handles and no record carries the handle of a
\* destroyed one.
C12_HandlesIncreaseBeforeWrap ==
    /\ (api_ret.code = LIBUSB_SUCCESS /\ api_ret.id <= HandleMax)
           => api_ret.handle = api_ret.id
    /\ \A i \in 1 .. Len(hotplug_cbs) :
           hotplug_cbs[i].id <= HandleMax =>
               /\ hotplug_cbs[i].handle = hotplug_cbs[i].id
               /\ \A j \in 1 .. Len(hotplug_cbs) :
                      i # j => hotplug_cbs[j].handle # hotplug_cbs[i].handle
               /\ hotplug_cbs[i].handle \notin Destroyed
    /\ \A t \in AppThreads :
           (pc[t] = "reg_add" /\ loc[t].cb.id <= HandleMax)
               => loc[t].cb.handle = loc[t].cb.id

\* The second registration returns after the first record was destroyed on
\* its callback's request, and gets the next handle.
C12_Witness ==
    /\ api_ret.code = LIBUSB_SUCCESS
    /\ api_ret.handle = 2
    /\ 1 \in stopped
    /\ 1 \in Destroyed
    /\ \E i \in 1 .. Len(hotplug_cbs) : hotplug_cbs[i].handle = 2

\* C20: every handle register_callback returns is in 1 .. 2^(w-1)-1 for a
\* signed counter of w bits, and the registration after the one that
\* returned the largest handle returns 1.
C20_HandleRange ==
    /\ api_ret.code = LIBUSB_SUCCESS => api_ret.handle \in 1 .. HandleMax
    /\ next_hotplug_cb_handle \in 1 .. HandleMax
    /\ \A i, j \in 1 .. Len(hotplug_cbs) :
           (hotplug_cbs[i].handle = HandleMax
            /\ hotplug_cbs[j].id = hotplug_cbs[i].id + 1)
               => hotplug_cbs[j].handle = 1

\* The registration that followed the one with the largest handle returned 1.
C20_Witness ==
    /\ api_ret.code = LIBUSB_SUCCESS
    /\ api_ret.handle = 1
    /\ api_ret.id = 2
    /\ \E i \in 1 .. Len(hotplug_cbs) :
           hotplug_cbs[i].id = 1 /\ hotplug_cbs[i].handle = HandleMax

NoRecordCarries(h) == \A i \in 1 .. Len(hotplug_cbs) : hotplug_cbs[i].handle # h

\* The step changes nothing of the registry, the queues, the reference
\* counts and the deferred-destruction marks, invokes no callback and raises
\* no signal.
NothingDeregistered ==
    /\ UNCHANGED <<hotplug_cbs, refcnt, handling_flags, usb_devs, event_flags,
                   deregd>>
    /\ trace' = <<>>
    /\ ~interrupted'
    /\ \A t \in AppThreads : pc'[t] = pc[t]

\* C13: a deregister call for a handle that no record of the registry
\* carries, made by the application thread or by a callback during a
\* dispatch pass, changes no state.
C13_DeregisterUnknownNoOp ==
    [][/\ \A t \in AppThreads, h \in Handles :
              (DeregisterLocked(t, h) /\ NoRecordCarries(h))
                  => NothingDeregistered
       /\ \A t \in EventThreads :
              (CallbackDeregister(t) /\ NoRecordCarries(loc[t].cb_dereg))
                  => NothingDeregistered]_vars

\* A callback has called deregister with a handle that no record carries,
\* in a pass over a registry of two records with notifications queued.
C13_Witness ==
    \E t \in EventThreads :
        /\ pc[t] = "proc_loop"
        /\ loc[t].cb_dereg # 0
        /\ loc[t].n >= 1
        /\ NoRecordCarries(loc[t].cb_dereg)
        /\ Len(hotplug_cbs) = 2
        /\ \A i \in 1 .. Len(hotplug_cbs) : hotplug_cbs[i].notifications # <<>>

\* Position of notification x in queue q, 0 if it is not queued there.
QueuePos(q, x) ==
    IF \E p \in 1 .. Len(q) : q[p] = x
    THEN CHOOSE p \in 1 .. Len(q) : q[p] = x
    ELSE 0

\* Number of invocations the dispatcher has made for its current record.
Delivered(t) == IF pc[t] = "cb_dereg" THEN loc[t].n + 1 ELSE loc[t].n

\* C14: the queues hold the notifications in the order of the hooks (the
\* arrival of a device before its departure, and any two notifications in
\* the same order in every queue that holds both), the k-th invocation made
\* for a record in a pass delivers the k-th notification of its queue, and
\* the records are in the registry, and are visited, in registration order.
C14_DispatchFifo ==
    /\ \A i \in 1 .. Len(hotplug_cbs) :
           LET q == hotplug_cbs[i].notifications
           IN /\ \A p1, p2 \in 1 .. Len(q) :
                     (p1 < p2 /\ q[p1].device = q[p2].device)
                         => /\ q[p1].event = LIBUSB_HOTPLUG_EVENT_DEVICE_ARRIVED
                            /\ q[p2].event = LIBUSB_HOTPLUG_EVENT_DEVICE_LEFT
              /\ \A j \in 1 .. Len(hotplug_cbs), p1, p2 \in 1 .. Len(q) :
                     LET q2 == hotplug_cbs[j].notifications
                     IN (p1 < p2 /\ QueuePos(q2, q[p1]) # 0
                         /\ QueuePos(q2, q[p2]) # 0)
                            => QueuePos(q2, q[p1]) < QueuePos(q2, q[p2])
    /\ \A i, j \in 1 .. Len(hotplug_cbs) :
           i < j => hotplug_cbs[i].id < hotplug_cbs[j].id
    /\ \A k \in 1 .. Len(trace), t \in EventThreads :
           trace[k].via = "dispatch" =>
               /\ \A id \in pass_calls \ {trace[k].id} : id < trace[k].id
               /\ \E i \in 1 .. Len(hotplug_cbs) :
                      /\ hotplug_cbs[i].id = trace[k].id
                      /\ Delivered(t) \in 1 .. Len(hotplug_cbs[i].notifications)
                      /\ hotplug_cbs[i].notifications[Delivered(t)]
                             = [event |-> trace[k].event,
                                device |-> trace[k].device]

\* The second record of the pass is delivered the departure of a device as
\* its second notification, after the arrival.
C14_Witness ==
    \E t \in EventThreads :
        /\ Len(trace) = 1
        /\ trace[1].via = "dispatch"
        /\ trace[1].event = LIBUSB_HOTPLUG_EVENT_DEVICE_LEFT
        /\ Delivered(t) = 2
        /\ Cardinality(pass_calls) = 2

\* C15 as stated: after the teardown the registry is empty, the live list
\* is empty, and no device has a reference left, on whatever platform.
C15_TeardownReleasesAllAnyPlatform ==
    exited =>
        /\ hotplug_cbs = <<>>
        /\ usb_devs = <<>>
        /\ \A d \in Devices : refcnt[d] = 0

\* C15 amended: after the teardown of a context on a hotplug-capable
\* platform the registry is empty, the live list is empty, and no device
\* has a reference left: those of the queued notifications and those of
\* the live list are released.
C15_TeardownReleasesAll ==
    (exited /\ has_hotplug) =>
        /\ hotplug_cbs = <<>>
        /\ usb_devs = <<>>
        /\ \A d \in Devices : refcnt[d] = 0

\* The teardown found two registered records, never deregistered, and two
\* live devices whose arrivals had been signalled and not yet dispatched.
C15_Witness ==
    /\ exited
    /\ has_hotplug
    /\ nregs = 2
    /\ deregd = {}
    /\ stopped = {}
    /\ allocated = Devices
    /\ "USBI_EVENT_HOTPLUG_NOTIFICATION_PENDING" \in event_flags

CurrentRecord(t) == hotplug_cbs[loc[t].cur]

\* The callback invocations made so far in the walk of the current record.
Invocations(t) == loc[t].n

\* C17 as stated: the walk over the queue of a record stops only when the
\* queue is exhausted or the record has been marked for deferred
\* destruction, so that an unmarked record with k queued notifications has
\* had its callback invoked exactly k times when the dispatcher leaves it.
C17_WalkStopsExhaustedOrMarked ==
    [][\A t \in EventThreads :
          ProcessFinish(t) =>
              \/ Invocations(t) = Len(CurrentRecord(t).notifications)
              \/ MarkedForFree(CurrentRecord(t))]_vars

\* C17 amended: the walk also stops when the callback returns non-zero.  When
\* the dispatcher leaves a record, its callback has been invoked at most
\* once per queued notification, and either the queue is exhausted, or the
\* record has been marked for deferred destruction, or the last invocation
\* returned non-zero; a record with k queued notifications that is not
\* marked and whose callback returned zero every time has been invoked
\* exactly k times.
C17_WalkStopsExhaustedMarkedOrDone ==
    [][\A t \in EventThreads :
          ProcessFinish(t) =>
              /\ Invocations(t) <= Len(CurrentRecord(t).notifications)
              /\ \/ Invocations(t) = Len(CurrentRecord(t).notifications)
                 \/ MarkedForFree(CurrentRecord(t))
                 \/ loc[t].ret # 0 /\ Invocations(t) >= 1
              /\ (~MarkedForFree(CurrentRecord(t)) /\ loc[t].ret = 0) =>
                     Invocations(t) = Len(CurrentRecord(t).notifications)]_vars

\* The dispatcher is about to leave an unmarked record whose callback has
\* been invoked for both of its two queued notifications and returned zero.
C17_Witness ==
    \E t \in EventThreads :
        /\ pc[t] = "proc_loop"
        /\ loc[t].cur <= Len(hotplug_cbs)
        /\ Len(CurrentRecord(t).notifications) = 2
        /\ ~MarkedForFree(CurrentRecord(t))
        /\ Invocations(t) = 2
        /\ loc[t].ret = 0

\* The pending-notification signal is raised.
Pending == "USBI_EVENT_HOTPLUG_NOTIFICATION_PENDING" \in event_flags

\* A dispatch pass is about to take the lock or is walking the registry.
PassUnderWay == \E t \in EventThreads : pc[t] \in {"proc_lock", "proc_loop", "cb_dereg"}

\* A hook has queued a notification and has not returned yet.
HookUnderWay == \E t \in HookThreads : pc[t] = "hook_signal"

SomethingQueued == \E d \in Devices : Queued(d) > 0

\* A hook that queues a notification goes on to raise the signal, and the
\* signal is raised when it returns.
HookRaisesPending ==
    [][/\ (\E d \in Devices : Queued(d)' > Queued(d)) => HookUnderWay'
       /\ (HookUnderWay /\ ~HookUnderWay') => Pending']_vars

\* No notification is queued while the signal is clear, no pass is under
\* way and no hook is on its way to raise the signal.
NothingQueuedUnsignalled ==
    SomethingQueued => (Pending \/ PassUnderWay \/ HookUnderWay)

\* Every queued notification leaves its queue: delivered, or released.
QueuedLeadsToDispatched ==
    \A d \in Devices : (Queued(d) > 0) ~> (Queued(d) = 0)

\* C18: no notification is lost between the hooks and the dispatcher.  A
\* hook that has queued a notification has raised the pending signal when
\* it returns; with an event loop that takes the signal and runs the
\* dispatcher whenever the signal is set, every queued notification
\* eventually leaves its queue; and in no state is a notification queued
\* while the signal is clear and no pass is running or about to run, the
\* hook that queued it having returned.
C18_NoNotificationLost ==
    /\ HookRaisesPending
    /\ []NothingQueuedUnsignalled
    /\ QueuedLeadsToDispatched

\* A hook has queued an arrival for two records, raised the signal and
\* returned, and the event loop has not taken the signal yet.
C18_Witness ==
    /\ Pending
    /\ ~HookUnderWay
    /\ ~PassUnderWay
    /\ \E d \in Devices : Queued(d) = 2

\* The positions of the registered records that want the event for the
\* device and whose queue could be extended.
Appended(d, event, fails) ==
    {i \in 1 .. Len(hotplug_cbs) :
        /\ MaskContains(hotplug_cbs[i].args.events, event)
        /\ FiltersPass(hotplug_cbs[i].args, d)
        /\ i \notin fails}

\* What a hook leaves behind when the reallocs of the records at the
\* positions in fails fail; base is the reference count of the device apart
\* from the references of the notifications queued by this hook.
HookOutcome(t, d, event, fails, base) ==
    /\ Len(hotplug_cbs') = Len(hotplug_cbs)
    /\ \A i \in 1 .. Len(hotplug_cbs) :
           hotplug_cbs'[i].notifications
               = IF i \in Appended(d, event, fails)
                 THEN Append(hotplug_cbs[i].notifications,
                             [event |-> event, device |-> d])
                 ELSE hotplug_cbs[i].notifications
    /\ refcnt'[d] = base + Cardinality(Appended(d, event, fails))
    /\ \A e \in Devices \ {d} : refcnt'[e] = refcnt[e]
    /\ (pc'[t] = "hook_signal") <=> (Appended(d, event, fails) # {})
    /\ (pc'[t] = "idle") <=> (Appended(d, event, fails) = {})
    /\ event_flags' = event_flags

\* C19: when the allocation fails while a hook appends a notification to a
\* matching record, that record's queue is left as it was and no reference
\* is taken for it; every other matching record gets its notification and
\* its reference; the device is inserted into or removed from the live
\* list all the same; and the hook goes on to raise the pending signal if
\* and only if at least one notification was appended.
C19_AllocFailureDropsOneDelivery ==
    [][\A t \in HookThreads, d \in Devices :
          /\ \A f \in ReallocFailures :
                 /\ ConnectDevice(t, d, f) =>
                        /\ HookOutcome(t, d, LIBUSB_HOTPLUG_EVENT_DEVICE_ARRIVED, f, 1)
                        /\ d \in SeqToSet(usb_devs')
                 /\ DisconnectDevice(t, d, f) =>
                        /\ HookOutcome(t, d, LIBUSB_HOTPLUG_EVENT_DEVICE_LEFT, f,
                                       refcnt[d] - 1)
                        /\ d \notin SeqToSet(usb_devs')
          /\ HookSignal(t) => Pending']_vars

\* An arrival was queued for the younger of two records that both want it
\* and not for the older one, whose realloc failed; the device is in the
\* live list with the list's reference and the one of the notification, and
\* the hook is on its way to raise the signal.
C19_Witness ==
    \E t \in HookThreads, d \in Devices :
        /\ alloc_faults
        /\ pc[t] = "hook_signal"
        /\ d \in Live
        /\ refcnt[d] = 2
        /\ \E i, j \in 1 .. Len(hotplug_cbs) :
               /\ i < j
               /\ MaskContains(hotplug_cbs[i].args.events,
                               LIBUSB_HOTPLUG_EVENT_DEVICE_ARRIVED)
               /\ FiltersPass(hotplug_cbs[i].args, d)
               /\ hotplug_cbs[i].notifications = <<>>
               /\ hotplug_cbs[j].notifications
                      = <<[event |-> LIBUSB_HOTPLUG_EVENT_DEVICE_ARRIVED, device |-> d]>>

\* The notifications among the first n of queue q that reference device d.
RefsAmong(q, n, d) == Cardinality({k \in 1 .. n : q[k].device = d})

\* The step invokes the callback of the current record for a notification
\* that is not the first of its queue.
InvokesLater(t) ==
    /\ Invocations(t) >= 1
    /\ \E b \in CallbackBehaviours : ProcessInvoke(t, b)

\* C21 as stated: at the moment the callback is invoked for the k-th queued
\* notification of a record, the references of the k-1 notifications
\* already delivered to it in this pass have been released: a device is
\* referenced by the live list and by the notifications not yet delivered.
C21_ReleasedAsConsumed ==
    [][\A t \in EventThreads :
          InvokesLater(t) =>
              \A d \in Devices :
                  refcnt[d] = InLive(d) + Queued(d)
                                  - RefsAmong(CurrentRecord(t).notifications,
                                              Invocations(t), d)]_vars

\* C21 amended: the references of the notifications of a record are held
\* through the whole walk of its queue and released together when the
\* dispatcher leaves the record.  At the moment the callback is invoked for
\* the k-th notification, the k-1 notifications already delivered are
\* still in the queue and still hold their references; the step that ends
\* the walk releases one reference per notification of the queue, delivered
\* or not, and leaves none of them queued.
C21_ReleasedWhenRecordLeft ==
    [][\A t \in EventThreads :
          /\ InvokesLater(t) =>
                 /\ Invocations(t) < Len(CurrentRecord(t).notifications)
                 /\ \A d \in Devices : refcnt[d] = InLive(d) + Queued(d)
                 /\ UNCHANGED <<refcnt, hotplug_cbs>>
          /\ ProcessFinish(t) =>
                 /\ \A d \in Devices :
                        refcnt'[d] = refcnt[d]
                                       - RefsAmong(CurrentRecord(t).notifications,
                                                   Len(CurrentRecord(t).notifications), d)
                 /\ \A i \in 1 .. Len(hotplug_cbs') :
                        hotplug_cbs'[i].id = CurrentRecord(t).id =>
                            hotplug_cbs'[i].notifications = <<>>]_vars

\* The callback is about to be invoked for the departure of a device whose
\* arrival it has just been given: the device is no longer in the live list
\* and both notifications still hold their reference.
C21_Witness ==
    \E t \in EventThreads, d \in Devices :
        /\ pc[t] = "proc_loop"
        /\ loc[t].cur <= Len(hotplug_cbs)
        /\ CurrentRecord(t).notifications
               = <<[device |-> d, event |-> LIBUSB_HOTPLUG_EVENT_DEVICE_ARRIVED],
                   [device |-> d, event |-> LIBUSB_HOTPLUG_EVENT_DEVICE_LEFT]>>
        /\ ~MarkedForFree(CurrentRecord(t))
        /\ Invocations(t) = 1
        /\ loc[t].ret = 0
        /\ d \notin Live
        /\ Len(hotplug_cbs) = 1
        /\ refcnt[d] = 2

\* Thread t is in the part of a call in which user callbacks are invoked:
\* the enumeration replay of register_callback up to the insertion of the
\* record, or the walk of the registry in process_pending.
CallbackSection == {"reg_add", "proc_loop", "cb_dereg"}

InCallbackSection(t) == pc[t] \in CallbackSection

\* The threads that may have made the invocations of the last step.
Invokers(via) == IF via = "register" THEN AppThreads ELSE EventThreads

\* Every callback invocation is made by a thread that holds the registry
\* lock when the callback returns, and that held it or found it free when
\* the call was made.
InvokedUnderLock ==
    [][\A k \in 1 .. Len(trace') :
           /\ lock_owner' \in Invokers(trace'[k].via)
           /\ pc'[lock_owner'] \in CallbackSection
           /\ lock_owner \in {NoThread, lock_owner'}]_vars

\* A thread in a callback section holds the registry lock.
SectionHoldsLock ==
    \A t \in Threads : InCallbackSection(t) => (lock_owner = t /\ lock_count >= 1)

\* No two threads are in a callback section at the same time.
OneSectionAtATime ==
    \A t, u \in Threads : (InCallbackSection(t) /\ InCallbackSection(u)) => t = u

\* While a thread is in a callback section the live list does not change,
\* no notification is appended, and the registry changes only by a step of
\* that thread.
SectionExcludesOthers ==
    [][\A t \in Threads :
           InCallbackSection(t) =>
               /\ usb_devs' = usb_devs
               /\ \A d \in Devices : Queued(d)' <= Queued(d)
               /\ (hotplug_cbs' # hotplug_cbs) => (pc'[t] # pc[t] \/ loc'[t] # loc[t])
               /\ \A u \in Threads \ {t} : InCallbackSection(u)' => InCallbackSection(u)]_vars

\* C22: user callbacks of one context are mutually exclusive across
\* threads.  Every invocation, from the enumeration replay or from the
\* dispatcher, is made under the registry lock; two threads are never in
\* their callback sections together; and while a callback runs no other
\* thread changes the live list or the queues.
C22_CallbacksMutuallyExclusive ==
    /\ InvokedUnderLock
    /\ []SectionHoldsLock
    /\ []OneSectionAtATime
    /\ SectionExcludesOthers

\* The dispatcher holds the lock in the middle of a walk, after one
\* invocation, while a registration is live and another device is known to
\* the backend thread; the application thread is outside any call.
C22_Witness ==
    \E t \in EventThreads :
        /\ pc[t] = "proc_loop"
        /\ loc[t].cur <= Len(hotplug_cbs)
        /\ Invocations(t) = 1
        /\ trace # <<>>
        /\ lock_owner = t
        /\ Len(hotplug_cbs) = 2
        /\ \A u \in Threads \ {t} : pc[u] = "idle"

\* The handles of the registered records whose deregister call has returned.
DeregisteredHandles ==
    {hotplug_cbs[i].handle : i \in {j \in 1 .. Len(hotplug_cbs) : hotplug_cbs[j].id \in deregd}}

\* The step is a get_user_data call for handle h.
LooksUp(h) ==
    \/ \E t \in AppThreads : GetUserData(t, h)
    \/ \E t \in EventThreads : CallbackGetUserData(t, h)

\* get_user_data returns nothing for a handle whose deregister call has
\* returned.
DeregisteredNotFound ==
    [][\A h \in DeregisteredHandles :
           LooksUp(h) => api_ret'.user_data = NULL]_vars

\* No notification is appended to a record whose deregister call has returned.
DeregisteredNotNotified ==
    [][\A i \in 1 .. Len(hotplug_cbs), j \in 1 .. Len(hotplug_cbs') :
           (hotplug_cbs[i].id \in deregd /\ hotplug_cbs'[j].id = hotplug_cbs[i].id) =>
               Len(hotplug_cbs'[j].notifications) <= Len(hotplug_cbs[i].notifications)]_vars

\* C23: once deregister(h) has returned for a registered handle h, h is no
\* longer a valid handle: get_user_data(h) returns nothing and the hooks
\* append no further notification for that record, whether the record was
\* destroyed at once or only marked for deferred destruction.
C23_DeregisteredHandleInvalid ==
    /\ DeregisteredNotFound
    /\ DeregisteredNotNotified

====
